---- MODULE Spec2Model ----
(***************************************************************************)
(* Model of slow_trader's risk-gated order lifecycle:                      *)
(*   RiskManager   (src/src/slow_trader/risk.py)                           *)
(*   OrderManager  (src/src/slow_trader/order_manager.py)                  *)
(* running against the Exchange capability                                 *)
(*   (src/src/slow_trader/exchanges/base.py).                              *)
(*                                                                         *)
(* Conventions.                                                            *)
(*  - Prices, quantities and portfolio values are integers; a fraction     *)
(*    such as max_drawdown = 0.15 is kept as a percentage and every        *)
(*    comparison is cross-multiplied, so the arithmetic is exact.          *)
(*  - Python's None for an optional price or order id is 0: the code       *)
(*    tests these by truthiness (`if exit_price:`, `if stop_loss:`,        *)
(*    `if managed.stop_loss_order_id:`), which treats None and 0 alike.    *)
(*    An absent last_trade_time is -1, since 0 is a valid time.            *)
(*  - Time is counted in calendar days (DayLen clock units to the day)    *)
(*    and min_trade_interval is one clock unit: a trade is too soon after  *)
(*    the last one while the clock has not moved. datetime.now() and       *)
(*    date.today() read `now`.                                             *)
(*  - Every handler is an operator from a world record (the fields of the  *)
(*    RiskManager, the OrderManager and the exchange) to the world it      *)
(*    leaves behind, so a handler that calls another is their composition. *)
(***************************************************************************)
EXTENDS Integers, Sequences, FiniteSets, TLC

\* ---------------------------------------------------------------- bounds
MaxTime == 1          \* the clock stops after this many clock units
MaxHistory == 2       \* record_trade calls explored in one behaviour
MaxOrders == 2        \* resting orders the exchange keeps
MaxStrategies == 3    \* strategies whose signals one consensus is taken of

\* ------------------------------------------- configuration (RiskLimits)
max_drawdown_pct == 15
max_daily_loss_pct == 5
stop_loss_pct == 2
take_profit_pct == 5
max_open_positions == 1
min_trade_interval == 1
max_trades_per_day == 2
DayLen == 1

Symbols == {"A", "B"}
LiveSymbols == {"A"}     \* the pairs configured when orders are really placed
Sides == {"buy", "sell"}
Signals == {"hold", "buy", "sell", "close_long", "close_short"}
Prices == {100}
PortfolioValues == {2000}
Quantities == {1}      \* what calculate_position_size returns, when not zero

VARIABLES
    now,                \* the wall clock
    dry_run,            \* OrderManager.dry_run
    risk,               \* the RiskManager's fields
    managed_positions,  \* OrderManager.managed_positions, in dict order
    positions,          \* the exchange's live positions, per symbol
    orders,             \* the exchange's orders; an order's id is its index
    exits,              \* history: exit records made per managed symbol
    last,               \* history: what the last handler call logged
    computed            \* the arguments and the result of a pure computation

vars == <<now, dry_run, risk, managed_positions, positions, orders, exits, last, computed>>

\* =========================================================== RiskManager

today(t) == t \div DayLen

RiskInit ==
    [daily_pnl |-> 0, daily_trades |-> 0, last_trade_time |-> -1,
     current_date |-> 0, peak_portfolio_value |-> 0, trade_history |-> <<>>]

\* mutant: the counters are reset whatever the day
reset_daily_always(r, t) ==
    [r EXCEPT !.daily_pnl = 0, !.daily_trades = 0, !.current_date = today(t)]

reset_daily(r, t) ==
    IF today(t) # r.current_date
    THEN [r EXCEPT !.daily_pnl = 0, !.daily_trades = 0, !.current_date = today(t)]
    ELSE r

update_portfolio_peak(r, current_value) ==
    IF current_value > r.peak_portfolio_value
    THEN [r EXCEPT !.peak_portfolio_value = current_value]
    ELSE r

\* check_drawdown both answers and, on a non-positive peak, writes the peak
check_drawdown_state(r, current_value) ==
    IF r.peak_portfolio_value <= 0
    THEN [r EXCEPT !.peak_portfolio_value = current_value]
    ELSE r

check_drawdown(r, current_value) ==
    IF r.peak_portfolio_value <= 0
    THEN TRUE
    ELSE ~ ((r.peak_portfolio_value - current_value) * 100
                > max_drawdown_pct * r.peak_portfolio_value)

check_daily_loss(r) ==
    ~ (r.daily_pnl * 100 < -(max_daily_loss_pct * r.peak_portfolio_value))

\* mutant: the elapsed time is compared in whole days
check_trade_frequency_by_days(r, t) ==
    IF r.last_trade_time = -1
    THEN TRUE
    ELSE ~ (today(t) - today(r.last_trade_time) < 0)

check_trade_frequency(r, t) ==
    IF r.last_trade_time = -1
    THEN TRUE
    ELSE ~ (t - r.last_trade_time < min_trade_interval)

\* mutant: the limit itself is still allowed
check_daily_trade_count_late(r) == ~ (r.daily_trades > max_trades_per_day)

check_daily_trade_count(r) == ~ (r.daily_trades >= max_trades_per_day)

check_position_count(current_positions) == ~ (current_positions >= max_open_positions)

\* can_trade: the state it leaves and the (allowed, reason) it returns
can_trade_state(r, portfolio_value, t) ==
    check_drawdown_state(
        update_portfolio_peak(reset_daily(r, t), portfolio_value),
        portfolio_value)

\* mutant: the trade-frequency check is made before the daily-loss check
can_trade_reason_reordered(r, portfolio_value, current_positions, t) ==
    LET r1 == update_portfolio_peak(reset_daily(r, t), portfolio_value)
        r2 == check_drawdown_state(r1, portfolio_value)
    IN  IF ~ check_drawdown(r1, portfolio_value) THEN "Drawdown limit exceeded"
        ELSE IF ~ check_trade_frequency(r2, t) THEN "Trade frequency limit"
        ELSE IF ~ check_daily_loss(r2) THEN "Daily loss limit exceeded"
        ELSE IF ~ check_daily_trade_count(r2) THEN "Daily trade count exceeded"
        ELSE IF ~ check_position_count(current_positions) THEN "Max positions reached"
        ELSE "OK"

can_trade_reason(r, portfolio_value, current_positions, t) ==
    LET r1 == update_portfolio_peak(reset_daily(r, t), portfolio_value)
        r2 == check_drawdown_state(r1, portfolio_value)
    IN  IF ~ check_drawdown(r1, portfolio_value) THEN "Drawdown limit exceeded"
        ELSE IF ~ check_daily_loss(r2) THEN "Daily loss limit exceeded"
        ELSE IF ~ check_trade_frequency(r2, t) THEN "Trade frequency limit"
        ELSE IF ~ check_daily_trade_count(r2) THEN "Daily trade count exceeded"
        ELSE IF ~ check_position_count(current_positions) THEN "Max positions reached"
        ELSE "OK"

\* mutant: the side is not looked at
pnl_of_long_only(side, quantity, entry_price, exit_price) ==
    IF exit_price # 0 THEN (exit_price - entry_price) * quantity ELSE 0

pnl_of(side, quantity, entry_price, exit_price) ==
    IF exit_price # 0
    THEN IF side = "buy"
         THEN (exit_price - entry_price) * quantity
         ELSE (entry_price - exit_price) * quantity
    ELSE 0

\* mutant: only a trade that is closed counts as a trade of the day
record_trade_exits_only(r, symbol, side, quantity, entry_price, exit_price, t) ==
    LET pnl == pnl_of(side, quantity, entry_price, exit_price)
    IN  [r EXCEPT
            !.daily_pnl = IF exit_price # 0 THEN @ + pnl ELSE @,
            !.trade_history = Append(@, [symbol |-> symbol, side |-> side,
                                         quantity |-> quantity,
                                         entry_price |-> entry_price,
                                         exit_price |-> exit_price,
                                         pnl |-> pnl]),
            !.daily_trades = IF exit_price # 0 THEN @ + 1 ELSE @,
            !.last_trade_time = t]

record_trade(r, symbol, side, quantity, entry_price, exit_price, t) ==
    LET pnl == pnl_of(side, quantity, entry_price, exit_price)
    IN  [r EXCEPT
            !.daily_pnl = IF exit_price # 0 THEN @ + pnl ELSE @,
            !.trade_history = Append(@, [symbol |-> symbol, side |-> side,
                                         quantity |-> quantity,
                                         entry_price |-> entry_price,
                                         exit_price |-> exit_price,
                                         pnl |-> pnl]),
            !.daily_trades = @ + 1,
            !.last_trade_time = t]

calculate_stop_loss(entry_price, side) ==
    LET stop_distance == (entry_price * stop_loss_pct) \div 100
    IN  IF side = "buy" THEN entry_price - stop_distance
        ELSE entry_price + stop_distance

calculate_take_profit(entry_price, side) ==
    LET take_profit_distance == (entry_price * take_profit_pct) \div 100
    IN  IF side = "buy" THEN entry_price + take_profit_distance
        ELSE entry_price - take_profit_distance

\* ======================================================= Exchange capability
\* The exchange is an external collaborator: the core sees it only through
\* the Exchange interface. Its answers (an order's status, a call raising)
\* are inputs of the handlers; its position book nets filled orders the way
\* DemoExchange._update_position does.

NoPosition == [side |-> "none", quantity |-> 0, entry_price |-> 0]

NoTrace ==
    [op |-> "init", symbol |-> "", result |-> "none", reason |-> "",
     ret_side |-> "", ret_quantity |-> 0, placed |-> 0, cancelled |-> 0,
     recorded_entry |-> 0, recorded_exit |-> 0, entry_status |-> "", reset |-> FALSE,
     checks |-> <<>>, simulated |-> FALSE]

opposite(side) == IF side = "buy" THEN "sell" ELSE "buy"

_update_position(pos, symbol, side, quantity, price) ==
    LET p == pos[symbol]
    IN  IF p # NoPosition
        THEN IF p.side = side
             THEN LET total_cost == p.entry_price * p.quantity + price * quantity
                  IN  [pos EXCEPT ![symbol] =
                          [p EXCEPT !.quantity = p.quantity + quantity,
                                    !.entry_price = total_cost \div (p.quantity + quantity)]]
             ELSE IF quantity >= p.quantity
                  THEN [pos EXCEPT ![symbol] = NoPosition]
                  ELSE [pos EXCEPT ![symbol] = [p EXCEPT !.quantity = p.quantity - quantity]]
        ELSE [pos EXCEPT ![symbol] =
                 [side |-> side, quantity |-> quantity, entry_price |-> price]]

get_positions(pos, symbol) == IF pos[symbol] = NoPosition THEN <<>> ELSE <<pos[symbol]>>

count_positions(pos) == Cardinality({s \in Symbols : pos[s] # NoPosition})

\* Order ids. The exchange keeps the resting (stop and limit) orders it
\* accepted, and such an order's id is its index in `orders`; these are the
\* only orders the core asks about again (get_order, cancel_order). A market
\* order fills or fails at once, and a rejected order is not kept.
SimId == -1          \* "sim_..." ids made up by _simulate_order
RejectedId == -2     \* the id carried by an order the exchange rejected
MarketId == -3       \* the id of a market order

\* place_order answering with `status` ("raise" when the call throws);
\* `fill` is the price a market order filled at.
place_order(w, symbol, side, order_type, quantity, price, stop_price, status, fill) ==
    IF status = "raise"
    THEN [w EXCEPT !.tr.placed = @ + 1]
    ELSE [w EXCEPT
            !.tr.placed = @ + 1,
            !.ord = IF order_type # "market" /\ status = "open"
                    THEN Append(@, [symbol |-> symbol, side |-> side,
                                    order_type |-> order_type, quantity |-> quantity,
                                    price |-> price, stop_price |-> stop_price,
                                    status |-> status, filled_price |-> 0,
                                    settled |-> FALSE])
                    ELSE @,
            !.pos = IF status = "filled"
                    THEN _update_position(@, symbol, side, quantity, fill)
                    ELSE @]

\* the id of the order place_order just answered with
placed_id(w, order_type, status) ==
    IF status = "rejected" THEN RejectedId
    ELSE IF order_type = "market" THEN MarketId
    ELSE Len(w.ord)

cancel_order(w, order_id) ==
    [w EXCEPT
        !.tr.cancelled = @ + 1,
        !.ord = IF order_id \in DOMAIN w.ord /\ w.ord[order_id].status = "open"
                THEN [@ EXCEPT ![order_id].status = "cancelled"]
                ELSE @]

\* ============================================================ OrderManager

has_managed(mp, symbol) == \E i \in DOMAIN mp : mp[i].symbol = symbol

get_managed(mp, symbol) == mp[CHOOSE i \in DOMAIN mp : mp[i].symbol = symbol]

\* managed_positions[symbol] = managed: a dict keeps a replaced key's place
set_managed(mp, managed) ==
    IF has_managed(mp, managed.symbol)
    THEN [i \in DOMAIN mp |-> IF mp[i].symbol = managed.symbol THEN managed ELSE mp[i]]
    ELSE Append(mp, managed)

del_managed(mp, symbol) == SelectSeq(mp, LAMBDA m : m.symbol # symbol)

\* created_at, like TradeRecord.timestamp, is written and never read: left out
ManagedPosition(symbol, side, quantity, entry_price, entry_order_id, stop_loss_price, take_profit_price, t) ==
    [symbol |-> symbol, side |-> side, quantity |-> quantity,
     entry_price |-> entry_price, entry_order_id |-> entry_order_id,
     stop_loss_order_id |-> 0, take_profit_order_id |-> 0,
     stop_loss_price |-> stop_loss_price, take_profit_price |-> take_profit_price]

\* record_trade as the OrderManager calls it, with the history bookkeeping
om_record_trade(w, symbol, side, quantity, entry_price, exit_price, t) ==
    [w EXCEPT
        !.risk = record_trade(@, symbol, side, quantity, entry_price, exit_price, t),
        !.tr.recorded_entry = IF exit_price = 0 THEN @ + 1 ELSE @,
        !.tr.recorded_exit = IF exit_price # 0 THEN @ + 1 ELSE @,
        !.exits[symbol] = IF exit_price # 0 THEN @ + 1 ELSE @]

returned(w, status, side, quantity) ==
    [w EXCEPT !.tr.result = status, !.tr.ret_side = side, !.tr.ret_quantity = quantity]

\* _simulate_order (dry run): a simulated id is -1
_simulate_order(w, symbol, side, quantity, price, t) ==
    LET w1 == [w EXCEPT
                 !.mp = set_managed(@, ManagedPosition(symbol, side, quantity, price, SimId,
                                        calculate_stop_loss(price, side),
                                        calculate_take_profit(price, side), t)),
                 !.exits[symbol] = 0]
        w2 == om_record_trade(w1, symbol, side, quantity, price, 0, t)
    IN  [returned(w2, "filled", side, quantity) EXCEPT !.tr.simulated = TRUE]

\* _place_order_with_stops; `ans` holds the exchange's answers:
\*   ans.entry \in {"raise","rejected","filled","open"}  the entry order
\*   ans.sl, ans.tp \in {"raise","rejected","open"}      the bracket legs

\* the entry order is placed
place_entry(w, symbol, side, quantity, current_price, ans) ==
    [place_order(w, symbol, side, "market", quantity, 0, 0, ans.entry, current_price)
        EXCEPT !.tr.entry_status = ans.entry]

\* order.filled_price or current_price
entry_price_of(current_price, ans) ==
    LET filled_price == IF ans.entry = "filled" THEN current_price ELSE 0
    IN  IF filled_price # 0 THEN filled_price ELSE current_price

\* the entry is recorded with the RiskManager
record_entry(w1, symbol, side, quantity, current_price, ans, t) ==
    om_record_trade(w1, symbol, side, quantity, entry_price_of(current_price, ans), 0, t)

\* mutant: both legs share one try, so a failing stop-loss skips the take-profit
place_brackets_one_try(w2, symbol, side, quantity, current_price, stop_loss, take_profit, ans, t) ==
    LET entry_price == entry_price_of(current_price, ans)
        sl == IF stop_loss = 0 THEN calculate_stop_loss(entry_price, side) ELSE stop_loss
        tp == IF take_profit = 0 THEN calculate_take_profit(entry_price, side) ELSE take_profit
        managed == ManagedPosition(symbol, side, quantity, entry_price,
                                   placed_id(w2, "market", ans.entry), sl, tp, t)
        w3 == IF sl # 0
              THEN place_order(w2, symbol, opposite(side), "stop_loss", quantity, 0, sl,
                               ans.sl, 0)
              ELSE w2
        sl_id == IF sl # 0 /\ ans.sl # "raise" THEN placed_id(w3, "stop_loss", ans.sl) ELSE 0
        w4 == IF tp # 0 /\ ans.sl # "raise"
              THEN place_order(w3, symbol, opposite(side), "limit", quantity, tp, 0,
                               ans.tp, 0)
              ELSE w3
        tp_id == IF tp # 0 /\ ans.tp # "raise" /\ ans.sl # "raise" THEN placed_id(w4, "limit", ans.tp) ELSE 0
    IN  [w4 EXCEPT
            !.mp = set_managed(@, [managed EXCEPT !.stop_loss_order_id = sl_id,
                                                  !.take_profit_order_id = tp_id]),
            !.exits[symbol] = 0]

\* the bracket legs are placed and the position is tracked
place_brackets(w2, symbol, side, quantity, current_price, stop_loss, take_profit, ans, t) ==
    LET entry_price == entry_price_of(current_price, ans)
        sl == IF stop_loss = 0 THEN calculate_stop_loss(entry_price, side) ELSE stop_loss
        tp == IF take_profit = 0 THEN calculate_take_profit(entry_price, side) ELSE take_profit
        managed == ManagedPosition(symbol, side, quantity, entry_price,
                                   placed_id(w2, "market", ans.entry), sl, tp, t)
        w3 == IF sl # 0
              THEN place_order(w2, symbol, opposite(side), "stop_loss", quantity, 0, sl,
                               ans.sl, 0)
              ELSE w2
        sl_id == IF sl # 0 /\ ans.sl # "raise" THEN placed_id(w3, "stop_loss", ans.sl) ELSE 0
        w4 == IF tp # 0
              THEN place_order(w3, symbol, opposite(side), "limit", quantity, tp, 0,
                               ans.tp, 0)
              ELSE w3
        tp_id == IF tp # 0 /\ ans.tp # "raise" THEN placed_id(w4, "limit", ans.tp) ELSE 0
    IN  [w4 EXCEPT
            !.mp = set_managed(@, [managed EXCEPT !.stop_loss_order_id = sl_id,
                                                  !.take_profit_order_id = tp_id]),
            !.exits[symbol] = 0]

\* mutant: the entry is recorded before the order's status is looked at
_place_order_with_stops_eager(w, symbol, side, quantity, current_price, stop_loss, take_profit, ans, t) ==
    LET w1 == place_entry(w, symbol, side, quantity, current_price, ans)
        w2 == record_entry(w1, symbol, side, quantity, current_price, ans, t)
    IN  IF ans.entry = "raise"
        THEN [w1 EXCEPT !.tr.result = "none", !.tr.reason = "place_failed"]
        ELSE IF ans.entry = "rejected"
        THEN returned(w2, "rejected", side, quantity)
        ELSE returned(place_brackets(w2, symbol, side, quantity, current_price,
                                     stop_loss, take_profit, ans, t),
                      ans.entry, side, quantity)

_place_order_with_stops(w, symbol, side, quantity, current_price, stop_loss, take_profit, ans, t) ==
    LET w1 == place_entry(w, symbol, side, quantity, current_price, ans)
        w2 == record_entry(w1, symbol, side, quantity, current_price, ans, t)
    IN  IF ans.entry = "raise"
        THEN [w1 EXCEPT !.tr.result = "none", !.tr.reason = "place_failed"]
        ELSE IF ans.entry = "rejected"
        THEN returned(w1, "rejected", side, quantity)
        ELSE returned(place_brackets(w2, symbol, side, quantity, current_price,
                                     stop_loss, take_profit, ans, t),
                      ans.entry, side, quantity)

_cancel_pending_orders(w, managed) ==
    LET w1 == IF managed.stop_loss_order_id # 0
              THEN cancel_order(w, managed.stop_loss_order_id) ELSE w
    IN  IF managed.take_profit_order_id # 0
        THEN cancel_order(w1, managed.take_profit_order_id) ELSE w1

\* mutant: the expected side is not compared with the position's side
close_position_any_side(w, symbol, side, ans, t) ==
    LET found == get_positions(w.pos, symbol)
        position == found[1]
        close_side == opposite(position.side)
        w1 == place_order(w, symbol, close_side, "market", position.quantity, 0, 0,
                          ans.close, ans.price)
        w2 == om_record_trade(w1, symbol, position.side, position.quantity,
                              position.entry_price, ans.price, t)
        w3 == IF has_managed(w2.mp, symbol)
              THEN [_cancel_pending_orders(w2, get_managed(w2.mp, symbol))
                       EXCEPT !.mp = del_managed(@, symbol)]
              ELSE w2
    IN  IF ans.close_raises = "get_positions"
        THEN [w EXCEPT !.tr.result = "raised", !.tr.reason = "get_positions"]
        ELSE IF found = <<>>
        THEN [w EXCEPT !.tr.result = "none", !.tr.reason = "no_position"]
        ELSE IF w.dry
        THEN IF ans.close_raises = "get_ticker"
             THEN [w EXCEPT !.tr.result = "raised", !.tr.reason = "get_ticker"]
             ELSE _simulate_order(w, symbol, close_side, position.quantity, ans.price, t)
        ELSE IF ans.close = "raise"
        THEN [w1 EXCEPT !.tr.result = "none", !.tr.reason = "place_failed"]
        ELSE IF ans.close = "filled"
        THEN returned(w3, "filled", close_side, position.quantity)
        ELSE returned(w1, ans.close, close_side, position.quantity)

\* mutant: close_position does not look at dry_run
close_position_live(w, symbol, side, ans, t) ==
    LET found == get_positions(w.pos, symbol)
        position == found[1]
        close_side == opposite(position.side)
        w1 == place_order(w, symbol, close_side, "market", position.quantity, 0, 0,
                          ans.close, ans.price)
        w2 == om_record_trade(w1, symbol, position.side, position.quantity,
                              position.entry_price, ans.price, t)
        w3 == IF has_managed(w2.mp, symbol)
              THEN [_cancel_pending_orders(w2, get_managed(w2.mp, symbol))
                       EXCEPT !.mp = del_managed(@, symbol)]
              ELSE w2
    IN  IF ans.close_raises = "get_positions"
        THEN [w EXCEPT !.tr.result = "raised", !.tr.reason = "get_positions"]
        ELSE IF found = <<>>
        THEN [w EXCEPT !.tr.result = "none", !.tr.reason = "no_position"]
        ELSE IF side # "" /\ position.side # side
        THEN [w EXCEPT !.tr.result = "none", !.tr.reason = "side_mismatch"]
        ELSE IF w.dry /\ ~ w.dry
        THEN IF ans.close_raises = "get_ticker"
             THEN [w EXCEPT !.tr.result = "raised", !.tr.reason = "get_ticker"]
             ELSE _simulate_order(w, symbol, close_side, position.quantity, ans.price, t)
        ELSE IF ans.close = "raise"
        THEN [w1 EXCEPT !.tr.result = "none", !.tr.reason = "place_failed"]
        ELSE IF ans.close = "filled"
        THEN returned(w3, "filled", close_side, position.quantity)
        ELSE returned(w1, ans.close, close_side, position.quantity)

\* close_position; side = "" when no expected side is given.
\*   ans.close_raises \in {"none","get_positions","get_ticker"}  a read that throws
\*   ans.close  \in {"raise","rejected","filled","open"}   the close order
\*   ans.price  the ticker's last price, and the close order's fill price
close_position(w, symbol, side, ans, t) ==
    LET found == get_positions(w.pos, symbol)
        position == found[1]
        close_side == opposite(position.side)
        w1 == place_order(w, symbol, close_side, "market", position.quantity, 0, 0,
                          ans.close, ans.price)
        w2 == om_record_trade(w1, symbol, position.side, position.quantity,
                              position.entry_price, ans.price, t)
        w3 == IF has_managed(w2.mp, symbol)
              THEN [_cancel_pending_orders(w2, get_managed(w2.mp, symbol))
                       EXCEPT !.mp = del_managed(@, symbol)]
              ELSE w2
    IN  IF ans.close_raises = "get_positions"
        THEN [w EXCEPT !.tr.result = "raised", !.tr.reason = "get_positions"]
        ELSE IF found = <<>>
        THEN [w EXCEPT !.tr.result = "none", !.tr.reason = "no_position"]
        ELSE IF side # "" /\ position.side # side
        THEN [w EXCEPT !.tr.result = "none", !.tr.reason = "side_mismatch"]
        ELSE IF w.dry
        THEN IF ans.close_raises = "get_ticker"
             THEN [w EXCEPT !.tr.result = "raised", !.tr.reason = "get_ticker"]
             ELSE _simulate_order(w, symbol, close_side, position.quantity, ans.price, t)
        ELSE IF ans.close = "raise"
        THEN [w1 EXCEPT !.tr.result = "none", !.tr.reason = "place_failed"]
        ELSE IF ans.close = "filled"
        THEN returned(w3, "filled", close_side, position.quantity)
        ELSE returned(w1, ans.close, close_side, position.quantity)

\* execute_signal once the RiskManager has allowed the trade;
\* `quantity` is what calculate_position_size returns.
\* mutant: the close signals are dispatched before the size is looked at
execute_allowed_close_first(w1, signal, symbol, quantity, stop_loss, take_profit, ans, t) ==
    IF ans.raises = "get_ticker"
    THEN [w1 EXCEPT !.tr.result = "raised", !.tr.reason = "get_ticker"]
    ELSE IF signal = "close_long"
    THEN close_position(w1, symbol, "buy", ans, t)
    ELSE IF signal = "close_short"
    THEN close_position(w1, symbol, "sell", ans, t)
    ELSE IF quantity <= 0
    THEN [w1 EXCEPT !.tr.result = "none", !.tr.reason = "zero_quantity"]
    ELSE IF w1.dry
    THEN _simulate_order(w1, symbol, signal, quantity, ans.price, t)
    ELSE _place_order_with_stops(w1, symbol, signal, quantity, ans.price,
                                 stop_loss, take_profit, ans, t)

execute_allowed(w1, signal, symbol, quantity, stop_loss, take_profit, ans, t) ==
    IF ans.raises = "get_ticker"
    THEN [w1 EXCEPT !.tr.result = "raised", !.tr.reason = "get_ticker"]
    ELSE IF quantity <= 0
    THEN [w1 EXCEPT !.tr.result = "none", !.tr.reason = "zero_quantity"]
    ELSE IF signal = "close_long"
    THEN close_position(w1, symbol, "buy", ans, t)
    ELSE IF signal = "close_short"
    THEN close_position(w1, symbol, "sell", ans, t)
    ELSE IF w1.dry
    THEN _simulate_order(w1, symbol, signal, quantity, ans.price, t)
    ELSE _place_order_with_stops(w1, symbol, signal, quantity, ans.price,
                                 stop_loss, take_profit, ans, t)

\* mutant: the answer of can_trade is not looked at
execute_signal_ungated(w, signal, symbol, portfolio_value, quantity, stop_loss, take_profit, ans, t) ==
    LET w1 == [w EXCEPT !.risk = can_trade_state(@, portfolio_value, t),
                        !.tr.reset = today(t) # w.risk.current_date]
    IN  IF signal = "hold"
        THEN [w EXCEPT !.tr.result = "not_actionable"]
        ELSE IF ans.raises = "get_positions"
        THEN [w EXCEPT !.tr.result = "raised", !.tr.reason = "get_positions"]
        ELSE execute_allowed(w1, signal, symbol, quantity, stop_loss, take_profit, ans, t)

execute_signal(w, signal, symbol, portfolio_value, quantity, stop_loss, take_profit, ans, t) ==
    LET current_positions == count_positions(w.pos)
        reason == can_trade_reason(w.risk, portfolio_value, current_positions, t)
        w1 == [w EXCEPT !.risk = can_trade_state(@, portfolio_value, t),
                        !.tr.reset = today(t) # w.risk.current_date]
    IN  IF signal = "hold"
        THEN [w EXCEPT !.tr.result = "not_actionable"]
        ELSE IF ans.raises = "get_positions"
        THEN [w EXCEPT !.tr.result = "raised", !.tr.reason = "get_positions"]
        ELSE IF reason # "OK"
        THEN [w1 EXCEPT !.tr.result = "blocked", !.tr.reason = reason]
        ELSE execute_allowed(w1, signal, symbol, quantity, stop_loss, take_profit, ans, t)

\* get_order: the order with that id, if the exchange has it
get_order(ord, order_id) == IF order_id \in DOMAIN ord THEN <<ord[order_id]>> ELSE <<>>

\* one leg of check_positions' loop body: poll the order, record a fill
check_leg(w, managed, order_id, t) ==
    LET order == get_order(w.ord, order_id)
    IN  IF order_id # 0 /\ order # <<>> /\ order[1].status = "filled"
        THEN om_record_trade(w, managed.symbol, managed.side, managed.quantity,
                             managed.entry_price, order[1].filled_price, t)
        ELSE w

\* what check_positions logged about a symbol
noted(w, symbol, logged) ==
    [w EXCEPT !.tr.checks = Append(@, [symbol |-> symbol, logged |-> logged])]

\* mutant: the legs of a position that is dropped are cancelled first
check_one_cancelling(w, managed, raises, t) ==
    LET symbol == managed.symbol
        w1 == check_leg(w, managed, managed.stop_loss_order_id, t)
    IN  IF raises = "get_positions" THEN noted(w, symbol, "Error checking position")
        ELSE IF get_positions(w.pos, symbol) = <<>>
        THEN noted([_cancel_pending_orders(w, managed) EXCEPT !.mp = del_managed(@, symbol)],
                   symbol, "was closed")
        ELSE IF managed.stop_loss_order_id # 0 /\ raises = "get_order_sl"
        THEN noted(w, symbol, "Error checking position")
        ELSE IF managed.take_profit_order_id # 0 /\ raises = "get_order_tp"
        THEN noted(w1, symbol, "Error checking position")
        ELSE noted(check_leg(w1, managed, managed.take_profit_order_id, t), symbol, "live")

\* mutant: a position the exchange no longer reports is logged but kept
check_one_keeping(w, managed, raises, t) ==
    LET symbol == managed.symbol
        w1 == check_leg(w, managed, managed.stop_loss_order_id, t)
    IN  IF raises = "get_positions" THEN noted(w, symbol, "Error checking position")
        ELSE IF get_positions(w.pos, symbol) = <<>>
        THEN noted(w, symbol, "was closed")
        ELSE IF managed.stop_loss_order_id # 0 /\ raises = "get_order_sl"
        THEN noted(w, symbol, "Error checking position")
        ELSE IF managed.take_profit_order_id # 0 /\ raises = "get_order_tp"
        THEN noted(w1, symbol, "Error checking position")
        ELSE noted(check_leg(w1, managed, managed.take_profit_order_id, t), symbol, "live")

\* the body of check_positions' loop for one managed position;
\* raises \in {"none","get_positions","get_order_sl","get_order_tp"} names
\* the exchange call that throws for this symbol (caught by the loop)
check_one(w, managed, raises, t) ==
    LET symbol == managed.symbol
        w1 == check_leg(w, managed, managed.stop_loss_order_id, t)
    IN  IF raises = "get_positions" THEN noted(w, symbol, "Error checking position")
        ELSE IF get_positions(w.pos, symbol) = <<>>
        THEN noted([w EXCEPT !.mp = del_managed(@, symbol)], symbol, "was closed")
        ELSE IF managed.stop_loss_order_id # 0 /\ raises = "get_order_sl"
        THEN noted(w, symbol, "Error checking position")
        ELSE IF managed.take_profit_order_id # 0 /\ raises = "get_order_tp"
        THEN noted(w1, symbol, "Error checking position")
        ELSE noted(check_leg(w1, managed, managed.take_profit_order_id, t), symbol, "live")

RECURSIVE check_loop(_, _, _, _)
check_loop(w, items, raises, t) ==
    IF items = <<>> THEN w
    ELSE check_loop(check_one(w, Head(items), raises[Head(items).symbol], t),
                    Tail(items), raises, t)

\* mutant: one try around the whole loop, so the first error ends the sweep
check_positions_aborting(w, raises, t) ==
    LET errs == {i \in DOMAIN w.mp : raises[w.mp[i].symbol] # "none"}
    IN  IF errs = {} THEN check_loop(w, w.mp, raises, t)
        ELSE check_loop(w, SubSeq(w.mp, 1, CHOOSE i \in errs : \A k \in errs : i <= k),
                        raises, t)

\* check_positions iterates over a snapshot of the dict's items
check_positions(w, raises, t) == check_loop(w, w.mp, raises, t)

\* get_stats reads the daily counters as they are
get_stats(w) == [w EXCEPT !.tr.result = "stats"]

\* ============================================================== TradingBot
\* check_and_trade: one pass over config.trading_pairs, then check_positions.
\* A pass is described by what the bot's collaborators answer:
\*   in.start  "closed" (is_trading_time is false), "pv_raises"
\*             (get_portfolio_value throws) or "ok"
\*   in.pv     the portfolio value
\*   in.calls  per symbol: ohlcv ("raise", "short" or "ok"), the consensus
\*             signal, the position size and the exchange's answers
\*   in.raises per symbol: the call that throws in check_positions

\* config.trading_pairs, in the configured order
trading_pairs(dry) == IF dry THEN <<"A", "B">> ELSE <<"A">>

\* the body of the loop for one pair: the world it leaves and what was logged
process_pair(w, symbol, call, portfolio_value, t) ==
    LET w1 == execute_signal([w EXCEPT !.tr = NoTrace], call.signal, symbol,
                             portfolio_value, call.quantity, 0, 0, call.ans, t)
    IN  IF call.ohlcv = "raise" THEN [w |-> w, logged |-> "Error processing"]
        ELSE IF call.ohlcv = "short" THEN [w |-> w, logged |-> "Insufficient data"]
        ELSE IF call.signal = "hold" THEN [w |-> w, logged |-> "hold"]
        ELSE IF w1.tr.result = "raised" THEN [w |-> w1, logged |-> "Error processing"]
        ELSE [w |-> w1, logged |-> w1.tr.result]

RECURSIVE sweep(_, _, _, _, _, _)
sweep(w, pairs, calls, portfolio_value, t, logged) ==
    IF pairs = <<>> THEN [w |-> w, logged |-> logged]
    ELSE LET done == process_pair(w, Head(pairs), calls[Head(pairs)], portfolio_value, t)
         IN  sweep(done.w, Tail(pairs), calls, portfolio_value, t,
                   Append(logged, done.logged))

\* mutant: the positions are checked before the pairs are processed
check_and_trade_check_first(w, in, t) ==
    IF in.start = "closed"
    THEN [w |-> w, pairs |-> <<>>, checked |-> FALSE, escaped |-> FALSE]
    ELSE IF in.start = "pv_raises"
    THEN [w |-> w, pairs |-> <<>>, checked |-> FALSE, escaped |-> TRUE]
    ELSE LET w1 == [w EXCEPT !.risk = update_portfolio_peak(@, in.pv)]
             w2 == check_positions([w1 EXCEPT !.tr = NoTrace], in.raises, t)
             swept == sweep(w2, trading_pairs(w.dry), in.calls, in.pv, t, <<>>)
         IN  [w |-> [swept.w EXCEPT !.tr = w2.tr],
              pairs |-> swept.logged,
              checked |-> TRUE, escaped |-> FALSE]

check_and_trade(w, in, t) ==
    IF in.start = "closed"
    THEN [w |-> w, pairs |-> <<>>, checked |-> FALSE, escaped |-> FALSE]
    ELSE IF in.start = "pv_raises"
    THEN [w |-> w, pairs |-> <<>>, checked |-> FALSE, escaped |-> TRUE]
    ELSE LET w1 == [w EXCEPT !.risk = update_portfolio_peak(@, in.pv)]
             swept == sweep(w1, trading_pairs(w.dry), in.calls, in.pv, t, <<>>)
         IN  [w |-> check_positions([swept.w EXCEPT !.tr = NoTrace], in.raises, t),
              pairs |-> swept.logged,
              checked |-> TRUE, escaped |-> FALSE]

\* ================================================================ the system

World ==
    [risk |-> risk, mp |-> managed_positions, pos |-> positions, ord |-> orders,
     exits |-> exits, dry |-> dry_run, tr |-> NoTrace]

\* config.trading_pairs: two pairs are traded on paper, one for real
Pairs == IF dry_run THEN Symbols ELSE LiveSymbols

\* what a handler call logged: "Daily risk counters reset" (risk.py), and
\* the warning of a trade blocked or of an entry order that failed
\* no pure computation is being followed
Idle == [op |-> "none"]

Quiet == [reset |-> FALSE, result |-> "", pairs |-> <<>>, checks |-> <<>>]

Logged(tr) ==
    [reset |-> tr.reset,
     result |-> IF tr.result = "blocked" THEN "Trade blocked"
                ELSE IF tr.entry_status = "raise" THEN "Failed to place order"
                ELSE IF tr.entry_status = "rejected" THEN "Order rejected"
                ELSE IF tr.reason = "no_position" THEN "No position found"
                ELSE IF tr.reason = "side_mismatch" THEN "Position side mismatch"
                ELSE "",
     pairs |-> <<>>, checks |-> <<>>]

\* the handler's world becomes the next state; the bounds stop the exploration
Becomes(w) ==
    /\ Len(w.ord) <= MaxOrders
    /\ Len(w.risk.trade_history) <= MaxHistory
    /\ risk' = w.risk
    /\ managed_positions' = w.mp
    /\ positions' = w.pos
    /\ orders' = w.ord
    /\ exits' = w.exits
    /\ last' = Logged(w.tr)
    /\ UNCHANGED <<computed, now, dry_run>>

\* The exchange's answers to one handler call. Only the answers the call can
\* reach are varied: the rest stay at their defaults.
Calm ==
    [entry |-> "filled", sl |-> "open", tp |-> "open", close |-> "filled",
     raises |-> "none", close_raises |-> "none", price |-> 100]

LegStatuses == {"raise", "rejected", "open"}

EntryAnswers ==
    {[Calm EXCEPT !.raises = r] : r \in {"get_positions", "get_ticker"}}
    \cup {[Calm EXCEPT !.entry = e] : e \in {"raise", "rejected"}}
    \cup {[Calm EXCEPT !.entry = "open", !.price = p] : p \in Prices}
    \cup {[Calm EXCEPT !.sl = sl, !.tp = tp, !.price = p] :
             sl \in LegStatuses, tp \in LegStatuses, p \in Prices}

CloseAnswers ==
    {[Calm EXCEPT !.close_raises = r] : r \in {"get_positions", "get_ticker"}}
    \cup {[Calm EXCEPT !.close = c] : c \in {"raise", "rejected", "open"}}
    \cup {[Calm EXCEPT !.price = p] : p \in Prices}

\* the calls of execute_signal that are explored
Calls ==
    {[signal |-> "hold", quantity |-> 0, ans |-> Calm]}
    \cup {[signal |-> sg, quantity |-> 0, ans |-> Calm] : sg \in Signals \ {"hold"}}
    \cup {[signal |-> sg, quantity |-> q, ans |-> a] :
             sg \in {"buy", "sell"}, q \in Quantities, a \in EntryAnswers}
    \cup {[signal |-> sg, quantity |-> q, ans |-> a] :
             sg \in {"close_long", "close_short"}, q \in Quantities,
             a \in CloseAnswers \cup {[Calm EXCEPT !.raises = r] :
                                         r \in {"get_positions", "get_ticker"}}}

CheckRaises == {"none", "get_positions", "get_order_sl", "get_order_tp"}

\* no call of the exchange fails
NoRaise == [s \in Symbols |-> "none"]

\* The account may hold positions before the bot starts: a fresh process
\* starts with an empty managed map whatever the exchange reports.
InitialPositions ==
    {NoPosition} \cup {[side |-> sd, quantity |-> 1, entry_price |-> 100] : sd \in Sides}

Init ==
    /\ now = 0
    /\ dry_run \in BOOLEAN
    /\ risk = RiskInit
    /\ managed_positions = <<>>
    /\ positions \in [Symbols -> InitialPositions]
    /\ \A s \in Symbols \ Pairs : positions[s] = NoPosition
    /\ orders = <<>>
    /\ exits = [s \in Symbols |-> 0]
    /\ last = Quiet
    /\ computed = Idle

Tick ==
    /\ now < MaxTime
    /\ now' = now + 1
    /\ last' = Quiet
    /\ UNCHANGED <<computed, dry_run, risk, managed_positions, positions, orders, exits>>

ExecuteSignal ==
    \E symbol \in Pairs, portfolio_value \in PortfolioValues, c \in Calls :
        Becomes(execute_signal(World, c.signal, symbol, portfolio_value, c.quantity, 0, 0,
                               c.ans, now))

ClosePosition ==
    \E symbol \in Pairs, side \in Sides \cup {""}, ans \in CloseAnswers :
        Becomes(close_position(World, symbol, side, ans, now))

CheckPositions ==
    \E raises \in [Symbols -> CheckRaises] :
        /\ \A s \in Symbols : ~ has_managed(managed_positions, s) => raises[s] = "none"
        /\ Becomes(check_positions(World, raises, now))

GetStats == Becomes(get_stats(World))

\* A resting bracket order fills on the exchange, at its stop or limit price,
\* against the position it was placed to close. The exchange reports the
\* order as Filled at once and the position book follows in a second step,
\* so a poll in between sees a filled leg and a live position.
ExchangeFill ==
    \E id \in DOMAIN orders :
        LET o == orders[id]
            fill == IF o.order_type = "limit" THEN o.price ELSE o.stop_price
        IN  /\ o.status = "open"
            /\ positions[o.symbol].side = opposite(o.side)
            /\ orders' = [orders EXCEPT ![id].status = "filled", ![id].filled_price = fill]
            /\ last' = Quiet
            /\ UNCHANGED <<computed, now, dry_run, risk, managed_positions, positions, exits>>

ExchangeSettle ==
    \E id \in DOMAIN orders :
        LET o == orders[id]
        IN  /\ o.status = "filled"
            /\ ~ o.settled
            /\ orders' = [orders EXCEPT ![id].settled = TRUE]
            /\ positions' = _update_position(positions, o.symbol, o.side, o.quantity,
                                             o.filled_price)
            /\ last' = Quiet
            /\ UNCHANGED <<computed, now, dry_run, risk, managed_positions, exits>>

Next ==
    \/ Tick
    \/ ExecuteSignal
    \/ ClosePosition
    \/ CheckPositions
    \/ GetStats
    \/ ExchangeFill
    \/ ExchangeSettle

Spec == Init /\ [][Next]_vars

\* ------------------------------------------------------------ the poll loop

\* check_positions is invoked; what it logged per symbol is kept
Polled(raises) ==
    \E w \in {check_positions(World, raises, now)} :
        /\ Len(w.ord) <= MaxOrders
        /\ Len(w.risk.trade_history) <= MaxHistory
        /\ risk' = w.risk
        /\ managed_positions' = w.mp
        /\ positions' = w.pos
        /\ orders' = w.ord
        /\ exits' = w.exits
        /\ last' = [Quiet EXCEPT !.checks = w.tr.checks]
        /\ UNCHANGED <<computed, now, dry_run>>

Poll ==
    \E raises \in [Symbols -> CheckRaises] :
        /\ \A s \in Symbols : ~ has_managed(managed_positions, s) => raises[s] = "none"
        /\ Polled(raises)

\* no call of the exchange fails during the poll
PollCalm == Polled(NoRaise)

NextSync ==
    \/ Tick
    \/ ExecuteSignal
    \/ Poll
    \/ ExchangeFill
    \/ ExchangeSettle

\* The bot's run loop calls check_positions once per pass for as long as it
\* runs, so a poll without errors that can be made is made.
SpecSync == Init /\ [][NextSync]_vars /\ WF_vars(PollCalm)

\* ------------------------------------------------ the RiskManager on its own
\* can_trade applied to the RiskManager states of a bounded set

RiskPortfolioValues == {-100, 0, 1600, 1699, 1700, 2000, 2100}

RiskStates ==
    [daily_pnl : {-101, -100, 0}, daily_trades : 0..max_trades_per_day,
     last_trade_time : -1..MaxTime, current_date : {0},
     peak_portfolio_value : {0, 2000}, trade_history : {<<>>}]

InitRisk ==
    /\ now \in 0..MaxTime
    /\ dry_run = FALSE
    /\ risk \in RiskStates
    /\ managed_positions = <<>>
    /\ positions = [s \in Symbols |-> NoPosition]
    /\ orders = <<>>
    /\ exits = [s \in Symbols |-> 0]
    /\ last = Quiet
    /\ computed = Idle

CanTrade ==
    \E portfolio_value \in RiskPortfolioValues, current_positions \in 0..max_open_positions :
        /\ risk' = can_trade_state(risk, portfolio_value, now)
        /\ last' = [reset |-> today(now) # risk.current_date,
                    result |-> can_trade_reason(risk, portfolio_value, current_positions, now),
                    pairs |-> <<>>, checks |-> <<>>]
        /\ UNCHANGED <<computed, now, dry_run, managed_positions, positions, orders, exits>>

NextRisk ==
    \/ CanTrade
    \/ Tick

SpecRisk == InitRisk /\ [][NextRisk]_vars

\* ------------------------------------------------- the bot's pass on its own
\* check_and_trade applied pass after pass

Skip == [ohlcv |-> "ok", signal |-> "hold", quantity |-> 0, ans |-> Calm]

PassCalls ==
    {[Skip EXCEPT !.ohlcv = o] : o \in {"raise", "short", "ok"}}
    \cup {[Skip EXCEPT !.signal = sg, !.quantity = q] :
             sg \in Signals \ {"hold"}, q \in Quantities}
    \cup {[Skip EXCEPT !.signal = "buy", !.quantity = q, !.ans = a] :
             q \in Quantities,
             a \in {[Calm EXCEPT !.raises = "get_positions"],
                    [Calm EXCEPT !.raises = "get_ticker"],
                    [Calm EXCEPT !.entry = "raise"],
                    [Calm EXCEPT !.entry = "rejected"]}}

\* the passes explored in this state; a symbol that is not configured gets
\* no call
PassInputs ==
    {[start |-> st, pv |-> pv, calls |-> [s \in Symbols |-> Skip],
      raises |-> [s \in Symbols |-> "none"]] :
         st \in {"closed", "pv_raises"}, pv \in PortfolioValues}
    \cup {[start |-> "ok", pv |-> pv, calls |-> c, raises |-> r] :
             pv \in PortfolioValues,
             c \in {f \in [Symbols -> PassCalls] : \A s \in Symbols \ Pairs : f[s] = Skip},
             r \in {f \in [Symbols -> {"none", "get_positions"}] :
                       \A s \in Symbols \ Pairs : f[s] = "none"}}

\* what the pass logged last, and per pair
PassLogged(p) ==
    [reset |-> FALSE,
     result |-> IF p.escaped THEN "escaped"
                ELSE IF p.checked THEN "Trading check complete"
                ELSE "Outside trading hours",
     pairs |-> p.pairs, checks |-> p.w.tr.checks]

Pass ==
    \E in \in PassInputs :
        \E p \in {check_and_trade(World, in, now)} :
            /\ Len(p.w.ord) <= MaxOrders
            /\ Len(p.w.risk.trade_history) <= MaxHistory
            /\ risk' = p.w.risk
            /\ managed_positions' = p.w.mp
            /\ positions' = p.w.pos
            /\ orders' = p.w.ord
            /\ exits' = p.w.exits
            /\ last' = PassLogged(p)
            /\ UNCHANGED <<computed, now, dry_run>>

NextPass ==
    \/ Pass
    \/ Tick

SpecPass == Init /\ [][NextPass]_vars

\* ----------------------------------------------------- the entries of a day
\* The handlers run from any count of the day's trades the limit allows, as
\* late in a day whose last trade is long enough ago; `computed` counts the
\* entries execute_signal has opened on the day it names.

DayCounts ==
    [op : {"day"}, day : {0}, entries : 0..max_trades_per_day]

InitDay ==
    /\ now = 0
    /\ dry_run \in BOOLEAN
    /\ computed \in DayCounts
    /\ risk \in {[RiskInit EXCEPT !.daily_trades = k] :
                    k \in computed.entries..max_trades_per_day}
    /\ managed_positions = <<>>
    /\ positions = [s \in Symbols |-> NoPosition]
    /\ orders = <<>>
    /\ exits = [s \in Symbols |-> 0]
    /\ last = Quiet

\* an entry opened now is counted on today's tally
counted(c, t) ==
    IF today(t) # c.day THEN [c EXCEPT !.day = today(t), !.entries = 1]
    ELSE [c EXCEPT !.entries = @ + 1]

ExecuteSignalCounted ==
    \E symbol \in Pairs, portfolio_value \in PortfolioValues, c \in Calls :
        \E w \in {execute_signal(World, c.signal, symbol, portfolio_value, c.quantity, 0, 0,
                                 c.ans, now)} :
            /\ Len(w.ord) <= MaxOrders
            /\ Len(w.risk.trade_history) <= MaxHistory
            /\ risk' = w.risk
            /\ managed_positions' = w.mp
            /\ positions' = w.pos
            /\ orders' = w.ord
            /\ exits' = w.exits
            /\ last' = Logged(w.tr)
            /\ computed' = IF c.signal \in Sides /\ w.tr.result \in {"filled", "open"}
                           THEN counted(computed, now)
                           ELSE computed
            /\ UNCHANGED <<now, dry_run>>

NextDay ==
    \/ Tick
    \/ ExecuteSignalCounted
    \/ ClosePosition
    \/ CheckPositions
    \/ ExchangeFill
    \/ ExchangeSettle

SpecDay == InitDay /\ [][NextDay]_vars

\* ------------------------------------------------- the tally of the trades
\* The handlers with a tally kept beside them: `computed` holds the number
\* of record_trade calls made so far and the number made when the daily
\* counters were last reset.

InitTally ==
    /\ now = 0
    /\ dry_run \in BOOLEAN
    /\ risk = RiskInit
    /\ managed_positions = <<>>
    /\ positions \in [Symbols -> InitialPositions]
    /\ \A s \in Symbols \ Pairs : positions[s] = NoPosition
    /\ orders = <<>>
    /\ exits = [s \in Symbols |-> 0]
    /\ last = Quiet
    /\ computed = [op |-> "tally", calls |-> 0, mark |-> 0]

\* the handler's world becomes the next state and its calls are tallied: the
\* reset comes with can_trade, before anything the handler records
Tallied(w) ==
    /\ Len(w.ord) <= MaxOrders
    /\ Len(w.risk.trade_history) <= MaxHistory
    /\ risk' = w.risk
    /\ managed_positions' = w.mp
    /\ positions' = w.pos
    /\ orders' = w.ord
    /\ exits' = w.exits
    /\ last' = Logged(w.tr)
    /\ computed' = [computed EXCEPT
                       !.calls = @ + w.tr.recorded_entry + w.tr.recorded_exit,
                       !.mark = IF w.tr.reset THEN computed.calls ELSE @]
    /\ UNCHANGED <<now, dry_run>>

ExecuteSignalTallied ==
    \E symbol \in Pairs, portfolio_value \in PortfolioValues, c \in Calls :
        Tallied(execute_signal(World, c.signal, symbol, portfolio_value, c.quantity, 0, 0,
                               c.ans, now))

ClosePositionTallied ==
    \E symbol \in Pairs, side \in Sides \cup {""}, ans \in CloseAnswers :
        Tallied(close_position(World, symbol, side, ans, now))

CheckPositionsTallied ==
    \E raises \in [Symbols -> CheckRaises] :
        /\ \A s \in Symbols : ~ has_managed(managed_positions, s) => raises[s] = "none"
        /\ Tallied(check_positions(World, raises, now))

NextTally ==
    \/ Tick
    \/ ExecuteSignalTallied
    \/ ClosePositionTallied
    \/ CheckPositionsTallied
    \/ ExchangeFill
    \/ ExchangeSettle

SpecTally == InitTally /\ [][NextTally]_vars

\* ------------------------------------------------------ exact arithmetic
\* The code computes sizes and strengths in floating point; the model keeps
\* them as exact fractions n/d in lowest terms, d > 0.

RECURSIVE Gcd(_, _)
Gcd(a, b) == IF b = 0 THEN a ELSE Gcd(b, a % b)

Abs(a) == IF a < 0 THEN -a ELSE a

Rat(n, d) ==
    LET g == Gcd(Abs(n), Abs(d))
        sign == IF d < 0 THEN -1 ELSE 1
    IN  IF n = 0 THEN [n |-> 0, d |-> 1]
        ELSE [n |-> sign * (n \div g), d |-> sign * (d \div g)]

RatMul(x, y) == Rat(x.n * y.n, x.d * y.d)
RatDiv(x, y) == Rat(x.n * y.d, x.d * y.n)
RatAdd(x, y) == Rat(x.n * y.d + y.n * x.d, x.d * y.d)
RatSub(x, y) == Rat(x.n * y.d - y.n * x.d, x.d * y.d)
RatAbs(x) == [n |-> Abs(x.n), d |-> x.d]
RatLeq(x, y) == x.n * y.d <= y.n * x.d
RatMin(x, y) == IF RatLeq(x, y) THEN x ELSE y
RatMax(x, y) == IF RatLeq(x, y) THEN y ELSE x
Zero == Rat(0, 1)

RECURSIVE Pow10(_)
Pow10(k) == IF k = 0 THEN 1 ELSE 10 * Pow10(k - 1)

\* ------------------------------------------------- position sizing on its own
max_position_size_pct == 10
risk_per_trade_pct == 1
quantity_precision == 8

\* mutant: the quantity is rounded up to the precision
round_quantity_up(quantity, precision) ==
    IF quantity.n >= 0
    THEN (quantity.n * Pow10(precision) + quantity.d - 1) \div quantity.d
    ELSE -((-quantity.n * Pow10(precision)) \div quantity.d)

\* helpers.round_quantity: Decimal.quantize with ROUND_DOWN truncates toward
\* zero; the result is counted in units of 10^-precision
round_quantity(quantity, precision) ==
    IF quantity.n >= 0
    THEN (quantity.n * Pow10(precision)) \div quantity.d
    ELSE -((-quantity.n * Pow10(precision)) \div quantity.d)

\* helpers.calculate_position_size
helpers_calculate_position_size(portfolio_value, risk_per_trade, entry_price, stop_loss_price, max_position_pct) ==
    LET risk_per_share == RatAbs(RatSub(entry_price, stop_loss_price))
        risk_amount == RatMul(portfolio_value, risk_per_trade)
        position_size == RatDiv(risk_amount, risk_per_share)
        max_position_value == RatMul(portfolio_value, max_position_pct)
        max_position_size == RatDiv(max_position_value, entry_price)
    IN  IF entry_price.n <= 0 \/ stop_loss_price.n <= 0 THEN Zero
        ELSE IF risk_per_share.n = 0 THEN Zero
        ELSE RatMin(position_size, max_position_size)

\* the stop price RiskManager.calculate_position_size works with; a signal
\* without a stop (None, or a stop of 0.0) has signal_stop_loss = 0
sizing_stop_loss(signal, signal_stop_loss, current_price) ==
    IF signal_stop_loss # 0 THEN Rat(signal_stop_loss, 1)
    ELSE IF signal = "buy" THEN Rat(current_price * (100 - stop_loss_pct), 100)
    ELSE Rat(current_price * (100 + stop_loss_pct), 100)

\* RiskManager.calculate_position_size up to its last line: the size before
\* it is rounded; strength is a fraction
position_size_scaled(signal, strength, signal_stop_loss, portfolio_value, current_price) ==
    LET position_size ==
            helpers_calculate_position_size(
                Rat(portfolio_value, 1), Rat(risk_per_trade_pct, 100), Rat(current_price, 1),
                sizing_stop_loss(signal, signal_stop_loss, current_price),
                Rat(max_position_size_pct, 100))
    IN  RatMul(position_size, RatMax(strength, Rat(5, 10)))

\* RiskManager.calculate_position_size, in units of 10^-8
calculate_position_size(signal, strength, signal_stop_loss, portfolio_value, current_price) ==
    round_quantity(position_size_scaled(signal, strength, signal_stop_loss, portfolio_value,
                                        current_price),
                   quantity_precision)

SizingPortfolioValues == {100, 200}
SizingPrices == {-5, 0, 3, 7, 100}
SizingStops == {-1, 0, 3, 50}
Strengths == {Rat(k, 10) : k \in {0, 3, 5, 7, 10}}

SizingInputs ==
    [op : {"calculate_position_size"}, signal : Sides, strength : Strengths,
     stop_loss : SizingStops, portfolio_value : SizingPortfolioValues,
     current_price : SizingPrices, done : {FALSE}, quantity : {0}]

InitSizing ==
    /\ now = 0
    /\ dry_run = FALSE
    /\ risk = RiskInit
    /\ managed_positions = <<>>
    /\ positions = [s \in Symbols |-> NoPosition]
    /\ orders = <<>>
    /\ exits = [s \in Symbols |-> 0]
    /\ last = Quiet
    /\ computed \in SizingInputs

CalculatePositionSize ==
    /\ computed.op = "calculate_position_size"
    /\ ~ computed.done
    /\ computed' = [computed EXCEPT
                      !.done = TRUE,
                      !.quantity = calculate_position_size(
                                       computed.signal, computed.strength, computed.stop_loss,
                                       computed.portfolio_value, computed.current_price)]
    /\ UNCHANGED <<now, dry_run, risk, managed_positions, positions, orders, exits, last>>

NextSizing == CalculatePositionSize

SpecSizing == InitSizing /\ [][NextSizing]_vars

\* ------------------------------------------------- the consensus on its own
\* StrategyManager.get_consensus, as the specification describes it: the
\* strategies' signals are gone through in evaluation order; a Buy or Sell
\* signal with a strength above 0 is a vote.

NoVotes == [buy_count |-> 0, sell_count |-> 0, buy_sum |-> Zero, sell_sum |-> Zero]

RECURSIVE count_votes(_, _)
count_votes(signals, votes) ==
    IF signals = <<>> THEN votes
    ELSE LET s == Head(signals)
         IN  count_votes(Tail(signals),
                 IF s.signal = "buy" /\ s.strength.n > 0
                 THEN [votes EXCEPT !.buy_count = @ + 1,
                                    !.buy_sum = RatAdd(@, s.strength)]
                 ELSE IF s.signal = "sell" /\ s.strength.n > 0
                 THEN [votes EXCEPT !.sell_count = @ + 1,
                                    !.sell_sum = RatAdd(@, s.strength)]
                 ELSE votes)

\* mutant: the winning side's strength is the mean over all votes
get_consensus_all_votes(signals) ==
    LET votes == count_votes(signals, NoVotes)
        mean == RatDiv(RatAdd(votes.buy_sum, votes.sell_sum),
                       Rat(votes.buy_count + votes.sell_count, 1))
    IN  IF votes.buy_count > votes.sell_count
        THEN [signal |-> "buy", strength |-> mean]
        ELSE IF votes.sell_count > votes.buy_count
        THEN [signal |-> "sell", strength |-> mean]
        ELSE [signal |-> "hold", strength |-> Zero]

get_consensus(signals) ==
    LET votes == count_votes(signals, NoVotes)
    IN  IF votes.buy_count > votes.sell_count
        THEN [signal |-> "buy",
              strength |-> RatDiv(votes.buy_sum, Rat(votes.buy_count, 1))]
        ELSE IF votes.sell_count > votes.buy_count
        THEN [signal |-> "sell",
              strength |-> RatDiv(votes.sell_sum, Rat(votes.sell_count, 1))]
        ELSE [signal |-> "hold", strength |-> Zero]

\* what one strategy may answer
StrategySignals ==
    [signal : {"hold", "buy", "sell"}, strength : {Rat(k, 10) : k \in {0, 6, 8, 9}}]

SignalSeqs == UNION {[1..n -> StrategySignals] : n \in 0..MaxStrategies}

InitConsensus ==
    /\ now = 0
    /\ dry_run = FALSE
    /\ risk = RiskInit
    /\ managed_positions = <<>>
    /\ positions = [s \in Symbols |-> NoPosition]
    /\ orders = <<>>
    /\ exits = [s \in Symbols |-> 0]
    /\ last = Quiet
    /\ computed \in [op : {"get_consensus"}, signals : SignalSeqs, done : {FALSE},
                     signal : {"hold"}, strength : {Zero}]

GetConsensus ==
    /\ computed.op = "get_consensus"
    /\ ~ computed.done
    /\ \E consensus \in {get_consensus(computed.signals)} :
           computed' = [computed EXCEPT !.done = TRUE,
                                        !.signal = consensus.signal,
                                        !.strength = consensus.strength]
    /\ UNCHANGED <<now, dry_run, risk, managed_positions, positions, orders, exits, last>>

NextConsensus == GetConsensus

SpecConsensus == InitConsensus /\ [][NextConsensus]_vars

\* ---------------------------------------------- the DemoExchange's balances
\* DemoExchange.place_order as it moves the balances; amounts are exact
\* fractions. `price` is the order's limit price, 0 when none is given.

fee_rate == Rat(1, 1000)
demo_current_price == Rat(100, 1)

\* DemoExchange.__init__ with a starting balance in the quote currency, and
\* `base` already held in the base currency
demo_balances(quote, base) ==
    [quote |-> [total |-> Rat(quote, 1), available |-> Rat(quote, 1)],
     base |-> [total |-> Rat(base, 1), available |-> Rat(base, 1)]]

demo_fill_price(side, order_type, price, slippage) ==
    IF order_type = "market"
    THEN IF side = "buy"
         THEN RatMul(demo_current_price, RatAdd(Rat(1, 1), slippage))
         ELSE RatMul(demo_current_price, RatSub(Rat(1, 1), slippage))
    ELSE IF price # 0 THEN Rat(price, 1) ELSE demo_current_price

demo_place_order(balances, side, order_type, quantity, price, slippage) ==
    LET fill_price == demo_fill_price(side, order_type, price, slippage)
        order_value == RatMul(Rat(quantity, 1), fill_price)
        fee == RatMul(order_value, fee_rate)
        required == RatAdd(order_value, fee)
        proceeds == RatSub(order_value, fee)
        accepted == IF order_type = "market" THEN "filled" ELSE "open"
    IN  IF side = "buy"
        THEN IF ~ RatLeq(required, balances.quote.available)
             THEN [balances |-> balances, status |-> "rejected"]
             ELSE [balances |->
                       [quote |-> [total |-> RatSub(balances.quote.total, fee),
                                   available |-> RatSub(balances.quote.available, required)],
                        base |-> [total |-> RatAdd(balances.base.total, Rat(quantity, 1)),
                                  available |-> RatAdd(balances.base.available,
                                                       Rat(quantity, 1))]],
                   status |-> accepted]
        ELSE IF ~ RatLeq(Rat(quantity, 1), balances.base.available)
             THEN [balances |-> balances, status |-> "rejected"]
             ELSE [balances |->
                       [quote |-> [total |-> RatAdd(balances.quote.total, proceeds),
                                   available |-> RatAdd(balances.quote.available, proceeds)],
                        base |-> [total |-> RatSub(balances.base.total, Rat(quantity, 1)),
                                  available |-> RatSub(balances.base.available,
                                                       Rat(quantity, 1))]],
                   status |-> accepted]

DemoInputs ==
    [op : {"place_order"}, side : Sides, order_type : {"market", "limit"},
     quantity : {1, 2, 200}, price : {0, 50, 100},
     slippage : {Zero, Rat(5, 10000)},
     balances : {demo_balances(10000, b) : b \in {0, 1}},
     done : {FALSE}, status : {""}]

InitDemo ==
    /\ now = 0
    /\ dry_run = FALSE
    /\ risk = RiskInit
    /\ managed_positions = <<>>
    /\ positions = [s \in Symbols |-> NoPosition]
    /\ orders = <<>>
    /\ exits = [s \in Symbols |-> 0]
    /\ last = Quiet
    /\ computed \in DemoInputs

DemoPlaceOrder ==
    /\ computed.op = "place_order"
    /\ ~ computed.done
    /\ \E placed \in {demo_place_order(computed.balances, computed.side, computed.order_type,
                                       computed.quantity, computed.price,
                                       computed.slippage)} :
           computed' = [computed EXCEPT !.done = TRUE,
                                        !.balances = placed.balances,
                                        !.status = placed.status]
    /\ UNCHANGED <<now, dry_run, risk, managed_positions, positions, orders, exits, last>>

NextDemo == DemoPlaceOrder

SpecDemo == InitDemo /\ [][NextDemo]_vars

\* ==================================================================== claims

ManagedSymbols(mp) == {mp[i].symbol : i \in DOMAIN mp}

\* every way execute_signal and close_position can be called in this state
ExecuteInputs == Pairs \X PortfolioValues \X Calls
CloseInputs == Pairs \X (Sides \cup {""}) \X CloseAnswers

Executed(in) ==
    execute_signal(World, in[3].signal, in[1], in[2], in[3].quantity, 0, 0, in[3].ans, now)

Closed(in) == close_position(World, in[1], in[2], in[3], now)

DayRolled == today(now) # risk.current_date

\* C1: reconciliation is idempotent: when check_positions runs twice in a
\* row with nothing changing on the exchange in between, the second run
\* makes no record_trade call.
C1_SecondPollRecordsNothing ==
    LET quiet == [s \in Symbols |-> "none"]
        once == check_positions(World, quiet, now)
        twice == check_positions(once, quiet, now)
    IN  twice.risk.trade_history = once.risk.trade_history

\* C2: whenever a ManagedPosition is removed, exactly one record_trade call
\* carrying an exit price has been made for it.
C2_OneExitPerRemoval ==
    [][\A symbol \in Symbols :
          (symbol \in ManagedSymbols(managed_positions)
              /\ symbol \notin ManagedSymbols(managed_positions'))
          => exits'[symbol] = 1]_vars

\* C3: the number of ManagedPositions never exceeds max_open_positions.
C3_ManagedWithinLimit == Len(managed_positions) <= max_open_positions

\* C4: execute_signal never overwrites the ManagedPosition of a symbol that
\* already has one (an opening signal leaves an existing entry as it is).
C4_NoOverwrite ==
    \A in \in ExecuteInputs :
        (in[3].signal \in {"buy", "sell"} /\ has_managed(managed_positions, in[1]))
        => get_managed(Executed(in).mp, in[1]) = get_managed(managed_positions, in[1])

\* C5: a non-null stop-loss or take-profit id of a ManagedPosition is the id
\* of an order the exchange accepted, never the id of a rejected order.
C5_BracketIdsAccepted ==
    \A i \in DOMAIN managed_positions :
        LET m == managed_positions[i]
        IN  /\ m.stop_loss_order_id # 0 => m.stop_loss_order_id \in DOMAIN orders
            /\ m.take_profit_order_id # 0 => m.take_profit_order_id \in DOMAIN orders

\* C6: when close_position finds a live position and returns a close order,
\* the order opposes the position and has its full quantity, record_trade
\* was called exactly once and with an exit price, and the symbol is no
\* longer managed - in live mode and in dry-run mode.
C6_CloseRecordsAndForgets ==
    \A in \in CloseInputs :
        LET w == Closed(in)
        IN  w.tr.result \in {"filled", "open", "rejected"}
            => /\ w.tr.ret_side = opposite(positions[in[1]].side)
               /\ w.tr.ret_quantity = positions[in[1]].quantity
               /\ w.tr.recorded_exit = 1
               /\ w.tr.recorded_entry = 0
               /\ ~ has_managed(w.mp, in[1])

\* the part of a call that C7 speaks of: the signal is Hold, or can_trade
\* was asked and rejected
Refused(in) ==
    \/ in[3].signal = "hold"
    \/ /\ in[3].ans.raises # "get_positions"
       /\ can_trade_reason(risk, in[2], count_positions(positions), now) # "OK"

NothingDone(w) ==
    /\ w.tr.result \in {"not_actionable", "blocked"}
    /\ w.tr.placed = 0 /\ w.tr.cancelled = 0
    /\ w.tr.recorded_entry = 0 /\ w.tr.recorded_exit = 0
    /\ w.ord = orders /\ w.pos = positions
    /\ w.mp = managed_positions
    /\ w.risk.trade_history = risk.trade_history
    /\ w.risk.last_trade_time = risk.last_trade_time

\* C7 as stated: a refused execute_signal returns None, places no order,
\* leaves the managed positions alone and leaves daily_trades, daily_pnl,
\* last_trade_time and trade_history unchanged.
C7_RefusedChangesNothing ==
    \A in \in ExecuteInputs :
        Refused(in) =>
            /\ NothingDone(Executed(in))
            /\ Executed(in).risk.daily_trades = risk.daily_trades
            /\ Executed(in).risk.daily_pnl = risk.daily_pnl

\* C7 amended: a refused execute_signal returns None, places no order, makes
\* no record_trade call and leaves the managed positions, last_trade_time
\* and trade_history unchanged; daily_trades and daily_pnl are unchanged
\* too, except that a can_trade that finds the calendar day rolled over
\* resets both to zero.
C7_RefusedOnlyResets ==
    \A in \in ExecuteInputs :
        Refused(in) =>
            LET w == Executed(in)
                reset == in[3].signal # "hold" /\ DayRolled
            IN  /\ NothingDone(w)
                /\ w.risk.daily_trades = IF reset THEN 0 ELSE risk.daily_trades
                /\ w.risk.daily_pnl = IF reset THEN 0 ELSE risk.daily_pnl

\* a refusal that came with the daily reset has just happened
C7_Witness ==
    /\ last.result = "Trade blocked" /\ last.reset
    /\ risk.trade_history # <<>>
    /\ risk.daily_trades = 0
    /\ risk.current_date = today(now)

\* C8: if the entry order fails (place_order raises or answers Rejected),
\* the RiskManager's fields are what they were when place_order was called
\* and no ManagedPosition is created or modified.
C8_FailedEntryLeavesNoMark ==
    \A in \in ExecuteInputs :
        (/\ ~ dry_run
         /\ in[3].signal \in {"buy", "sell"}
         /\ in[3].quantity > 0
         /\ in[3].ans.raises = "none"
         /\ in[3].ans.entry \in {"raise", "rejected"}
         /\ ~ Refused(in))
        => LET w == Executed(in)
           IN  /\ w.risk = can_trade_state(risk, in[2], now)
               /\ w.mp = managed_positions
               /\ w.tr.recorded_entry = 0 /\ w.tr.recorded_exit = 0
               /\ w.tr.result = IF in[3].ans.entry = "raise" THEN "none" ELSE "rejected"

\* an entry order has just failed, after trades were recorded
C8_Witness ==
    /\ last.result \in {"Failed to place order", "Order rejected"}
    /\ risk.trade_history # <<>>

\* the checks of can_trade, stated on the RiskManager's fields: which of
\* them fail for this portfolio value and position count, once the day's
\* counters and the high-water mark are brought up to date
FailingChecks(portfolio_value, current_positions) ==
    LET pnl == IF DayRolled THEN 0 ELSE risk.daily_pnl
        trades == IF DayRolled THEN 0 ELSE risk.daily_trades
        high == IF portfolio_value > risk.peak_portfolio_value
                THEN portfolio_value ELSE risk.peak_portfolio_value
        peak == IF high <= 0 THEN portfolio_value ELSE high
    IN  {n \in 1..5 :
            \/ n = 1 /\ high > 0 /\ (high - portfolio_value) * 100 > max_drawdown_pct * high
            \/ n = 2 /\ pnl * 100 < -(max_daily_loss_pct * peak)
            \/ n = 3 /\ risk.last_trade_time # -1
                     /\ now - risk.last_trade_time < min_trade_interval
            \/ n = 4 /\ trades >= max_trades_per_day
            \/ n = 5 /\ current_positions >= max_open_positions}

Reasons ==
    <<"Drawdown limit exceeded", "Daily loss limit exceeded", "Trade frequency limit",
      "Daily trade count exceeded", "Max positions reached">>

\* C9: can_trade answers with the reason of the first failing check in the
\* order drawdown, daily loss, frequency, daily count, position count, and
\* with OK iff none fails; below peak x (1 - max_drawdown) the answer is the
\* drawdown reason whatever the other counters are, and at exactly
\* peak x (1 - max_drawdown) the drawdown check does not fail.
C9_FirstFailingCheck ==
    \A portfolio_value \in RiskPortfolioValues, current_positions \in 0..max_open_positions :
        LET reason == can_trade_reason(risk, portfolio_value, current_positions, now)
            failing == FailingChecks(portfolio_value, current_positions)
            peak == risk.peak_portfolio_value
        IN  /\ reason = "OK" <=> failing = {}
            /\ failing # {} =>
                 reason = Reasons[CHOOSE n \in failing : \A m \in failing : n <= m]
            /\ (peak > 0 /\ portfolio_value * 100 < peak * (100 - max_drawdown_pct))
                 => reason = "Drawdown limit exceeded"
            /\ (peak > 0 /\ portfolio_value * 100 = peak * (100 - max_drawdown_pct))
                 => reason # "Drawdown limit exceeded"

\* can_trade has just answered with the drawdown reason while the daily
\* loss, the frequency and the daily count checks fail as well
C9_Witness ==
    /\ last.result = "Drawdown limit exceeded"
    /\ FailingChecks(1699, 0) = {1, 2, 3, 4}

\* C10: the daily counters are reset for a new calendar day before any
\* trade is counted on that day: the day marker is never behind the day of
\* the last recorded trade.
C10_ResetBeforeCount ==
    risk.last_trade_time # -1 => today(risk.last_trade_time) <= risk.current_date

\* C11: peak_portfolio_value never decreases: every step leaves it at least
\* as high as it was.
C11_PeakNeverDecreases ==
    [][risk'.peak_portfolio_value >= risk.peak_portfolio_value]_vars

\* what a pass would do in this state
Passed(in) == check_and_trade(World, in, now)

\* C12: no exception of an exchange call escapes a pass: whichever call
\* throws, every configured pair is still handled and check_positions runs.
C12_NothingEscapes ==
    \A in \in PassInputs :
        in.start # "closed" =>
            \A p \in {Passed(in)} :
                /\ ~ p.escaped
                /\ p.checked
                /\ Len(p.pairs) = Len(trading_pairs(dry_run))

RecordsOf(history, symbol) == SelectSeq(history, LAMBDA rec : rec.symbol = symbol)

\* C13: one check_positions call visits every symbol that was managed at
\* its start, in order; a symbol whose sync hit an exchange error keeps its
\* ManagedPosition as it was, and every symbol without an error is synced
\* as it is when no call fails at all.
C13_SweepIsolatesErrors ==
    \A raises \in [Symbols -> CheckRaises] :
        \A w \in {check_positions(World, raises, now)},
           calm \in {check_positions(World, NoRaise, now)} :
            /\ [i \in DOMAIN w.tr.checks |-> w.tr.checks[i].symbol]
                 = [i \in DOMAIN managed_positions |-> managed_positions[i].symbol]
            /\ \A i \in DOMAIN w.tr.checks :
                 LET symbol == w.tr.checks[i].symbol
                 IN  IF w.tr.checks[i].logged = "Error checking position"
                     THEN /\ has_managed(w.mp, symbol)
                          /\ get_managed(w.mp, symbol) = get_managed(managed_positions, symbol)
                     ELSE /\ has_managed(w.mp, symbol) <=> has_managed(calm.mp, symbol)
                          /\ RecordsOf(w.risk.trade_history, symbol)
                               = RecordsOf(calm.risk.trade_history, symbol)

\* a pass has just ended whose check_positions hit an error on the first
\* managed symbol and dropped the second
C13_Witness ==
    /\ Len(last.checks) = 2
    /\ last.checks[1].logged = "Error checking position"
    /\ last.checks[2].logged = "was closed"
    /\ Len(managed_positions) = 1
    /\ managed_positions[1].symbol = last.checks[1].symbol

\* C14: when the entry went through, a bracket leg whose place_order raises
\* is not fatal: the entry order is still returned, the ManagedPosition is
\* created with that leg's id null, and the other leg is still placed and
\* its id kept.
C14_LegFailureNotFatal ==
    \A in \in ExecuteInputs :
        \A w \in {Executed(in)} :
            (w.tr.entry_status \in {"filled", "open"}
                /\ (in[3].ans.sl = "raise" \/ in[3].ans.tp = "raise")) =>
            /\ w.tr.result = in[3].ans.entry
            /\ has_managed(w.mp, in[1])
            /\ \A m \in {get_managed(w.mp, in[1])} :
                 /\ m.entry_order_id = MarketId
                 /\ (in[3].ans.sl = "raise") <=> (m.stop_loss_order_id = 0)
                 /\ (in[3].ans.tp = "raise") <=> (m.take_profit_order_id = 0)
                 /\ in[3].ans.sl = "open" =>
                      /\ m.stop_loss_order_id \in DOMAIN w.ord \ DOMAIN orders
                      /\ w.ord[m.stop_loss_order_id].order_type = "stop_loss"
                 /\ in[3].ans.tp = "open" =>
                      /\ m.take_profit_order_id \in DOMAIN w.ord \ DOMAIN orders
                      /\ w.ord[m.take_profit_order_id].order_type = "limit"

\* a live position is tracked whose stop-loss could not be placed while its
\* take-profit rests on the exchange
C14_Witness ==
    /\ ~ dry_run
    /\ \E i \in DOMAIN managed_positions :
         /\ managed_positions[i].entry_order_id = MarketId
         /\ managed_positions[i].stop_loss_order_id = 0
         /\ managed_positions[i].take_profit_order_id \in DOMAIN orders
         /\ orders[managed_positions[i].take_profit_order_id].order_type = "limit"
         /\ risk.trade_history # <<>>

\* C15: within one pass the symbols are handled in the configured order and
\* each one's gate sees what the earlier ones did: once an entry for an
\* earlier symbol was recorded in this pass, nothing is executed for a later
\* symbol of the pass (the minimum interval has not passed, so its gate
\* refuses it before any order is placed); check_positions runs after the
\* last symbol, so it visits the positions entered in this pass.
C15_PassIsSequential ==
    last.result = "Trading check complete" =>
        /\ Len(last.pairs) = Len(trading_pairs(dry_run))
        /\ \A k \in DOMAIN last.pairs :
            /\ (\E j \in 1..(k - 1) : last.pairs[j] \in {"filled", "open"})
                   => last.pairs[k] \in {"blocked", "hold", "Insufficient data",
                                         "Error processing"}
            /\ last.pairs[k] \in {"filled", "open"} =>
                   \E i \in DOMAIN last.checks :
                       last.checks[i].symbol = trading_pairs(dry_run)[k]

\* a pass over two symbols has ended in which the first symbol's entry was
\* made, the second symbol was refused, and the new position was checked
C15_Witness ==
    /\ last.pairs = <<"filled", "blocked">>
    /\ last.result = "Trading check complete"
    /\ \E i \in DOMAIN last.checks : last.checks[i].symbol = trading_pairs(dry_run)[1]
    /\ risk.last_trade_time = now

\* C16: a ManagedPosition is created only when its entry order has filled:
\* when place_order returns the entry with another status, no
\* ManagedPosition is created, no entry is recorded with the RiskManager
\* and no bracket order is placed.
C16_OnlyFilledEntriesTracked ==
    \A in \in ExecuteInputs :
        \A w \in {Executed(in)} :
            (w.tr.entry_status # "" /\ w.tr.entry_status # "filled") =>
                /\ w.mp = managed_positions
                /\ w.risk.trade_history = (can_trade_state(risk, in[2], now)).trade_history
                /\ w.ord = orders

Gone(symbol) == get_positions(positions, symbol) = <<>>

\* check_positions drops a ManagedPosition exactly when the exchange, asked
\* without error, reports no live position for the symbol
DroppedExactlyWhenGone ==
    \A raises \in [Symbols -> CheckRaises] :
        \A w \in {check_positions(World, raises, now)} :
            \A symbol \in Symbols :
                has_managed(managed_positions, symbol) =>
                    (~ has_managed(w.mp, symbol)
                        <=> (raises[symbol] # "get_positions" /\ Gone(symbol)))

\* C17: check_positions drops a ManagedPosition exactly when the exchange
\* reports no live position for its symbol and never removes one whose
\* position is still live, whatever the state of its bracket legs; and a
\* managed symbol whose position stays gone is eventually removed, given
\* that check_positions keeps being invoked without error.
C17_DroppedWhenGone ==
    /\ []DroppedExactlyWhenGone
    /\ \A symbol \in Symbols :
           (has_managed(managed_positions, symbol) /\ Gone(symbol))
               ~> (~ has_managed(managed_positions, symbol) \/ ~ Gone(symbol))

\* a poll has just dropped a position the exchange no longer reports
C17_Witness ==
    \E i \in DOMAIN last.checks :
        /\ last.checks[i].logged = "was closed"
        /\ ~ has_managed(managed_positions, last.checks[i].symbol)
        /\ Gone(last.checks[i].symbol)

\* what a call did when no order came back
NoOrder == {"not_actionable", "blocked", "raised", "none"}

\* the call never reached the exchange's place_order or cancel_order, and an
\* order it returned is a simulated one whose status is Filled
OnlySimulated(w) ==
    /\ w.tr.placed = 0
    /\ w.tr.cancelled = 0
    /\ w.ord = orders
    /\ w.tr.result \notin NoOrder => (w.tr.simulated /\ w.tr.result = "filled")

\* C18: with dry_run set, execute_signal and close_position never invoke the
\* exchange's place_order or cancel_order, and every order they return is a
\* simulated order with status Filled.
C18_DryRunNeverTrades ==
    dry_run =>
        /\ \A in \in ExecuteInputs : \A w \in {Executed(in)} : OnlySimulated(w)
        /\ \A in \in CloseInputs : \A w \in {Closed(in)} : OnlySimulated(w)

\* a dry run tracks a simulated entry while the exchange holds no order
C18_Witness ==
    /\ dry_run
    /\ orders = <<>>
    /\ risk.trade_history # <<>>
    /\ \E i \in DOMAIN managed_positions : managed_positions[i].entry_order_id = SimId

\* C20: for a positive portfolio value, a positive price and a strength in
\* [0, 1], calculate_position_size returns a quantity q with
\* 0 <= q <= portfolio_value * max_position_size / current_price; q is 0
\* when the entry equals the stop price or a price is not positive; and
\* the flooring to 8 decimals never makes q larger than the size it rounds.
C20_SizeWithinCap ==
    (computed.op = "calculate_position_size" /\ computed.done
        /\ computed.portfolio_value > 0) =>
        LET q == Rat(computed.quantity, Pow10(quantity_precision))
            stop == sizing_stop_loss(computed.signal, computed.stop_loss,
                                     computed.current_price)
            unrounded == position_size_scaled(computed.signal, computed.strength,
                                              computed.stop_loss, computed.portfolio_value,
                                              computed.current_price)
        IN  /\ computed.current_price > 0 =>
                /\ computed.quantity >= 0
                /\ RatLeq(q, Rat(computed.portfolio_value * max_position_size_pct,
                                 100 * computed.current_price))
            /\ (computed.current_price <= 0 \/ stop.n <= 0
                  \/ stop = Rat(computed.current_price, 1)) => computed.quantity = 0
            /\ RatLeq(q, unrounded)

\* a size of 10/3 has been floored to 3.33333333
C20_Witness ==
    /\ computed.op = "calculate_position_size"
    /\ computed.done
    /\ computed.portfolio_value = 100
    /\ computed.current_price = 3
    /\ computed.quantity = 333333333

\* the strategies whose signal is a vote for `side`
Voters(signals, side) ==
    {i \in DOMAIN signals : signals[i].signal = side /\ signals[i].strength.n > 0}

RECURSIVE SumOfStrengths(_, _)
SumOfStrengths(signals, voters) ==
    IF voters = {} THEN Zero
    ELSE LET i == CHOOSE v \in voters : TRUE
         IN  RatAdd(signals[i].strength, SumOfStrengths(signals, voters \ {i}))

Reorderings(n) == {f \in [1..n -> 1..n] : \A i, j \in 1..n : f[i] = f[j] => i = j}

\* C19: the consensus is the majority of the Buy and Sell signals whose
\* strength is above 0, Hold on a tie or without votes; its strength is the
\* mean strength of the winning side's votes; and it is the same in
\* whatever order the strategies are evaluated.
C19_MajorityWithMeanStrength ==
    (computed.op = "get_consensus" /\ computed.done) =>
        LET signals == computed.signals
            buys == Voters(signals, "buy")
            sells == Voters(signals, "sell")
            winners == IF computed.signal = "buy" THEN buys ELSE sells
        IN  /\ computed.signal =
                   IF Cardinality(buys) > Cardinality(sells) THEN "buy"
                   ELSE IF Cardinality(sells) > Cardinality(buys) THEN "sell"
                   ELSE "hold"
            /\ computed.signal # "hold" =>
                   RatMul(computed.strength, Rat(Cardinality(winners), 1))
                       = SumOfStrengths(signals, winners)
            /\ \A f \in Reorderings(Len(signals)) :
                   get_consensus([i \in 1..Len(signals) |-> signals[f[i]]])
                       = [signal |-> computed.signal, strength |-> computed.strength]

\* Buy 0.8, Buy 0.6 and Sell 0.9 have given Buy with strength 0.7
C19_Witness ==
    /\ computed.op = "get_consensus"
    /\ computed.done
    /\ computed.signals = <<[signal |-> "buy", strength |-> Rat(8, 10)],
                            [signal |-> "buy", strength |-> Rat(6, 10)],
                            [signal |-> "sell", strength |-> Rat(9, 10)]>>
    /\ computed.signal = "buy"
    /\ computed.strength = Rat(7, 10)

\* MeanReversionStrategy.analyze: the levels its signal carries. A Buy is
\* signalled with the price at or below the lower band, a Sell with the
\* price at or above the upper band; `band` is that band.
mean_reversion_levels(signal, band, middle) ==
    IF signal = "buy"
    THEN [stop_loss |-> (band * 98) \div 100, take_profit |-> middle]
    ELSE [stop_loss |-> (band * 102) \div 100, take_profit |-> middle]

\* the levels a Buy or Sell signal at price 100 may carry: none, or the
\* mean-reversion strategy's with the price on the band or beyond it
SignalLevels(signal) ==
    {[stop_loss |-> 0, take_profit |-> 0]}
    \cup (IF signal = "buy"
          THEN {mean_reversion_levels(signal, band, 160) : band \in {100, 150}}
          ELSE {mean_reversion_levels(signal, band, 40) : band \in {100, 50}})

\* C21: the bracket levels attached to an executed entry satisfy
\* stop_loss < entry_price < take_profit for a Buy and
\* take_profit < entry_price < stop_loss for a Sell, whether they come from
\* the signal or from calculate_stop_loss / calculate_take_profit.
C21_BracketsStraddleEntry ==
    \A in \in ExecuteInputs :
        in[3].signal \in Sides =>
            \A levels \in SignalLevels(in[3].signal) :
                \A w \in {execute_signal(World, in[3].signal, in[1], in[2], in[3].quantity,
                                         levels.stop_loss, levels.take_profit, in[3].ans, now)} :
                    (w.tr.result \in {"filled", "open"} /\ has_managed(w.mp, in[1])) =>
                        \A m \in {get_managed(w.mp, in[1])} :
                            IF in[3].signal = "buy"
                            THEN m.stop_loss_price < m.entry_price
                                    /\ m.entry_price < m.take_profit_price
                            ELSE m.take_profit_price < m.entry_price
                                    /\ m.entry_price < m.stop_loss_price

\* C22: on a new calendar day reset_daily zeroes daily_trades and daily_pnl
\* and advances the day marker; called again on the same day it changes
\* nothing, so trades recorded since the reset are kept; in both cases
\* peak_portfolio_value, last_trade_time and trade_history stay as they are.
C22_ResetDaily ==
    \A r1 \in {reset_daily(risk, now)} :
        /\ today(now) # risk.current_date =>
               /\ r1.daily_trades = 0
               /\ r1.daily_pnl = 0
               /\ r1.current_date = today(now)
        /\ today(now) = risk.current_date => r1 = risk
        /\ r1.peak_portfolio_value = risk.peak_portfolio_value
        /\ r1.last_trade_time = risk.last_trade_time
        /\ r1.trade_history = risk.trade_history
        /\ reset_daily(r1, now) = r1
        /\ \A r2 \in {record_trade(r1, "A", "buy", 1, 100, 0, now)} :
               /\ r2.daily_trades = r1.daily_trades + 1
               /\ reset_daily(r2, now) = r2

\* can_trade has just reset the counters on a new day, and the time of the
\* last trade is still known
C22_Witness ==
    /\ last.reset
    /\ risk.daily_trades = 0
    /\ risk.daily_pnl = 0
    /\ risk.current_date = today(now)
    /\ risk.current_date # 0
    /\ risk.last_trade_time >= 0

\* C23: close_position does nothing when the exchange reports no live
\* position for the symbol, and refuses when an expected side is given that
\* differs from the live position's side: in both cases it returns None,
\* places no order, records no trade, cancels no bracket leg and leaves the
\* managed-position map as it is.
C23_CloseWithoutPosition ==
    \A in \in CloseInputs :
        (in[3].close_raises # "get_positions"
            /\ (Gone(in[1]) \/ (in[2] # "" /\ positions[in[1]].side # in[2]))) =>
            \A w \in {Closed(in)} :
                /\ w.tr.result = "none"
                /\ w.tr.placed = 0
                /\ w.tr.cancelled = 0
                /\ w.mp = managed_positions
                /\ w.risk = risk
                /\ w.ord = orders
                /\ w.pos = positions

\* close_position has just found no position, or one of the other side,
\* while a position of that symbol was managed with a bracket leg resting
C23_Witness ==
    /\ last.result \in {"No position found", "Position side mismatch"}
    /\ \E i \in DOMAIN managed_positions, id \in DOMAIN orders :
           /\ orders[id].status = "open"
           /\ orders[id].symbol = managed_positions[i].symbol
           /\ managed_positions[i].stop_loss_order_id = id
                 \/ managed_positions[i].take_profit_order_id = id

\* the arguments record_trade is tried with; an exit price of 0 is none
RecordInputs == Pairs \X Sides \X Quantities \X Prices \X {0, 98, 100, 105}

\* C24: a record_trade call appends exactly one entry to trade_history and
\* leaves the earlier entries as they are, increments daily_trades by one
\* and stamps last_trade_time; daily_pnl moves only when an exit price is
\* supplied, by (exit - entry) * quantity for side buy and by
\* (entry - exit) * quantity otherwise.
C24_RecordTrade ==
    \A in \in RecordInputs :
        \A r1 \in {record_trade(risk, in[1], in[2], in[3], in[4], in[5], now)} :
            /\ Len(r1.trade_history) = Len(risk.trade_history) + 1
            /\ SubSeq(r1.trade_history, 1, Len(risk.trade_history)) = risk.trade_history
            /\ r1.trade_history[Len(r1.trade_history)].symbol = in[1]
            /\ r1.trade_history[Len(r1.trade_history)].exit_price = in[5]
            /\ r1.daily_trades = risk.daily_trades + 1
            /\ r1.last_trade_time = now
            /\ r1.daily_pnl - risk.daily_pnl =
                   IF in[5] = 0 THEN 0
                   ELSE IF in[2] = "buy" THEN (in[5] - in[4]) * in[3]
                   ELSE (in[4] - in[5]) * in[3]
            /\ r1.peak_portfolio_value = risk.peak_portfolio_value
            /\ r1.current_date = risk.current_date

\* an exit with a loss or a gain has just been recorded after an entry
C24_Witness ==
    /\ Len(risk.trade_history) >= 2
    /\ risk.trade_history[Len(risk.trade_history)].exit_price # 0
    /\ risk.trade_history[Len(risk.trade_history)].pnl # 0
    /\ risk.daily_pnl # 0
    /\ risk.last_trade_time = now

\* C25: on a DemoExchange that started with 10000 in the quote currency and
\* a fee rate of 0.001, a Buy of quantity 1 at price 100 leaves exactly
\* 10000 - 100 * 1.001 = 9899.9 in the quote balance, total and available
\* alike, and 1 more in the base balance.
C25_BuyLeavesQuoteBalance ==
    (computed.op = "place_order" /\ computed.done /\ computed.status # "rejected"
        /\ computed.side = "buy" /\ computed.quantity = 1
        /\ demo_fill_price("buy", computed.order_type, computed.price, computed.slippage)
             = Rat(100, 1)) =>
        /\ computed.balances.quote.available = Rat(98999, 10)
        /\ computed.balances.quote.total = Rat(98999, 10)
        /\ \E b \in {0, 1} : /\ computed.balances.base.total = Rat(b + 1, 1)
                             /\ computed.balances.base.available = Rat(b + 1, 1)

\* C26: on any calendar day execute_signal opens at most max_trades_per_day
\* entries, placed live or simulated, whatever close_position and
\* check_positions calls come in between and across day rollovers.
C26_EntriesPerDay ==
    computed.op = "day" => computed.entries <= max_trades_per_day

\* execute_signal has opened the last entry the day's limit allows and has
\* just refused the next signal
C26_Witness ==
    /\ computed.op = "day"
    /\ computed.entries = max_trades_per_day
    /\ risk.daily_trades >= max_trades_per_day
    /\ risk.trade_history # <<>>
    /\ risk.current_date = today(now)
    /\ last.result = "Trade blocked"

\* C27: execute_signal opens no entry less than min_trade_interval after the
\* most recent record_trade of any kind: an execute_signal call that opens an
\* entry, placed or simulated, starts from a state in which no trade was
\* recorded yet or the interval has passed since the time of the last trade,
\* and every call that records a trade, the entry itself or an exit made by
\* close_position or check_positions, stamps that time with the present.
C27_EntriesKeepTheInterval ==
    /\ \A in \in {i \in ExecuteInputs : i[3].signal \in Sides} : \A w \in {Executed(in)} :
        /\ w.tr.result \in {"filled", "open"} =>
               \/ risk.last_trade_time = -1
               \/ now - risk.last_trade_time >= min_trade_interval
        /\ Len(w.risk.trade_history) > Len(risk.trade_history) =>
               w.risk.last_trade_time = now
    /\ \A in \in CloseInputs : \A w \in {Closed(in)} :
        Len(w.risk.trade_history) > Len(risk.trade_history) =>
            w.risk.last_trade_time = now
    /\ \A raises \in [Symbols -> CheckRaises] : \A w \in {check_positions(World, raises, now)} :
        Len(w.risk.trade_history) > Len(risk.trade_history) =>
            w.risk.last_trade_time = now

\* a second entry has been opened, the interval after the first one's
\* record_trade having passed
C27_Witness ==
    /\ Len(risk.trade_history) = 2
    /\ \A k \in 1..2 : risk.trade_history[k].exit_price = 0
    /\ risk.last_trade_time = now
    /\ now >= min_trade_interval
    /\ last.result = ""

\* what close_position leaves behind when it was called
CloseReached(w) ==
    \/ w.tr.reason \in {"no_position", "side_mismatch", "place_failed"}
    \/ w.tr.placed > 0 \/ w.tr.cancelled > 0 \/ w.tr.simulated
    \/ w.tr.recorded_entry > 0 \/ w.tr.recorded_exit > 0

\* C28: a CloseLong or CloseShort signal reaches close_position only if
\* can_trade allows the trade and the computed position size is positive;
\* when can_trade refuses, the close signal is dropped: no order is placed or
\* cancelled, nothing is recorded, and the exchange position and the
\* ManagedPosition are what they were.
C28_CloseSignalIsGated ==
    \A in \in {i \in ExecuteInputs : i[3].signal \in {"close_long", "close_short"}} :
        \A w \in {Executed(in)} :
            /\ CloseReached(w) =>
                   /\ can_trade_reason(risk, in[2], count_positions(positions), now) = "OK"
                   /\ in[3].quantity > 0
            /\ (/\ in[3].ans.raises # "get_positions"
                /\ can_trade_reason(risk, in[2], count_positions(positions), now) # "OK") =>
                   /\ w.tr.result = "blocked"
                   /\ ~ CloseReached(w)
                   /\ w.ord = orders
                   /\ w.pos = positions
                   /\ w.mp = managed_positions

\* a signal has just been refused while a position that a close signal
\* names is held and managed, and can_trade still refuses
C28_Witness ==
    /\ last.result = "Trade blocked"
    /\ \E s \in Pairs :
        /\ positions[s] # NoPosition
        /\ has_managed(managed_positions, s)
    /\ \E pv \in PortfolioValues :
        can_trade_reason(risk, pv, count_positions(positions), now) # "OK"

\* C29: check_positions only reads the exchange: it places and cancels no
\* order, so the orders and positions of the exchange are what they were and
\* the legs of a ManagedPosition it drops, an unfilled sibling included, stay
\* as they rest on the exchange; the only state it changes is the managed
\* map, by deletions, and the RiskManager, by record_trade calls.
C29_CheckPositionsOnlyReads ==
    \A raises \in [Symbols -> CheckRaises] : \A w \in {check_positions(World, raises, now)} :
        /\ w.tr.placed = 0 /\ w.tr.cancelled = 0
        /\ w.ord = orders /\ w.pos = positions
        /\ w.dry = dry_run
        /\ \A i \in DOMAIN w.mp : \E j \in DOMAIN managed_positions :
               w.mp[i] = managed_positions[j]
        /\ w.tr.recorded_entry + w.tr.recorded_exit = 0 => w.risk = risk
        /\ w.risk.current_date = risk.current_date
        /\ w.risk.peak_portfolio_value = risk.peak_portfolio_value
        /\ Len(w.risk.trade_history) =
               Len(risk.trade_history) + w.tr.recorded_entry + w.tr.recorded_exit
        /\ SubSeq(w.risk.trade_history, 1, Len(risk.trade_history)) = risk.trade_history

\* check_positions has just dropped the ManagedPosition of a symbol while a
\* leg placed for it still rests open on the exchange
C29_Witness ==
    \E i \in DOMAIN last.checks :
        /\ last.checks[i].logged = "was closed"
        /\ ~ has_managed(managed_positions, last.checks[i].symbol)
        /\ \E id \in DOMAIN orders :
            /\ orders[id].symbol = last.checks[i].symbol
            /\ orders[id].status = "open"

\* the sum of the pnl fields of the entries after the first `from`
RECURSIVE SumOfPnl(_, _)
SumOfPnl(history, from) ==
    IF from >= Len(history) THEN 0
    ELSE history[from + 1].pnl + SumOfPnl(history, from + 1)

\* C30: in every reachable state of the RiskManager, daily_trades is the
\* number of record_trade calls made since the last daily reset, daily_pnl is
\* the sum of the pnl fields of the trade_history entries appended since that
\* reset, and trade_history has one entry per record_trade call ever made.
C30_CountersMatchHistory ==
    computed.op = "tally" =>
        /\ Len(risk.trade_history) = computed.calls
        /\ computed.mark <= computed.calls
        /\ risk.daily_trades = computed.calls - computed.mark
        /\ risk.daily_pnl = SumOfPnl(risk.trade_history, computed.mark)

\* after a daily reset that came with trades already in the history, a trade
\* with a gain or a loss has been recorded
C30_Witness ==
    /\ computed.op = "tally"
    /\ computed.mark >= 1
    /\ computed.calls > computed.mark
    /\ risk.daily_pnl # 0

====
